---------------------------- MODULE Spec2Model ----------------------------
(***************************************************************************)
(* Model of the rule engine of src/LR3.py: evaluate_condition,             *)
(* rule_matches and run_rules, applied to facts records and rule sets.     *)
(*                                                                         *)
(* Python values are tagged records [t, v]: t is the Python type, v the    *)
(* payload.  Numbers are integers; cgpa is held in hundredths (3.7 is      *)
(* 370), every other number as written.  An exception that leaves a        *)
(* function is the outcome "TypeError".                                    *)
(***************************************************************************)
EXTENDS Integers, Sequences, FiniteSets, TLC

VARIABLES facts, rules, rules_source, out, calls, cond, cond_out

vars == <<facts, rules, rules_source, out, calls, cond, cond_out>>

(***************************************************************************)
(* Python values                                                           *)
(***************************************************************************)
Num(n) == [t |-> "num", v |-> n]

Str(s) == [t |-> "str", v |-> s]

List(s) == [t |-> "list", v |-> s]

Null == [t |-> "null", v |-> 0]

\* Code points of the strings that take part in an ordering comparison.
Codes(s) ==
    CASE s = "3.5" -> <<51, 46, 53>>
      [] s = "3.8" -> <<51, 46, 56>>
      [] s = ">=" -> <<62, 61>>
      [] s = "cgpa" -> <<99, 103, 112, 97>>
      [] s = "high" -> <<104, 105, 103, 104>>

RECURSIVE LexLess(_, _)
\* str.__lt__: lexicographic order on code points.
LexLess(a, b) ==
    IF b = <<>> THEN FALSE
    ELSE IF a = <<>> THEN TRUE
    ELSE IF Head(a) # Head(b) THEN Head(a) < Head(b)
    ELSE LexLess(Tail(a), Tail(b))

\* a < b is defined (does not raise TypeError) for two numbers or two strings.
Orderable(a, b) == a.t = b.t /\ a.t \in {"num", "str"}

\* a < b, for orderable a and b.
PyLess(a, b) ==
    IF a.t = "num" THEN a.v < b.v ELSE LexLess(Codes(a.v), Codes(b.v))

\* a == b: values of different types are unequal, never an error.
PyEq(a, b) == IF a.t = b.t THEN a.v = b.v ELSE FALSE

Bool(b) == IF b THEN "True" ELSE "False"

\* hash(x), as `x in dict` needs it: a list is unhashable.
Hashable(x) == x.t # "list"

\* len(x) is defined for a list; for a number or None it raises TypeError.
HasLen(x) == x.t = "list"

\* iter(x) is defined for a list; for a number or None it raises TypeError.
Iterable(x) == x.t = "list"

(***************************************************************************)
(* OPS: the operator mapping                                               *)
(***************************************************************************)
OPS == {"==", "!=", ">", ">=", "<", "<="}

\* OPS[op](a, b): "True", "False" or "TypeError".
ApplyOp(op, a, b) ==
    CASE op = "==" -> Bool(PyEq(a, b))
      [] op = "!=" -> Bool(~PyEq(a, b))
      [] op = ">" -> IF Orderable(a, b) THEN Bool(PyLess(b, a)) ELSE "TypeError"
      [] op = ">=" -> IF Orderable(a, b) THEN Bool(~PyLess(a, b)) ELSE "TypeError"
      [] op = "<" -> IF Orderable(a, b) THEN Bool(PyLess(a, b)) ELSE "TypeError"
      [] op = "<=" -> IF Orderable(a, b) THEN Bool(~PyLess(b, a)) ELSE "TypeError"

\* The comparison without its try/except: the error leaves the function.
CompareUnguarded(op, a, b) == ApplyOp(op, a, b)

\* try: return OPS[op](facts[field], value) / except Exception: return False
Compare(op, a, b) ==
    IF ApplyOp(op, a, b) = "TypeError" THEN "False" ELSE ApplyOp(op, a, b)

\* `field in facts`, for a hashable field: facts has string keys only.
InFacts(f, field) == field.t = "str" /\ field.v \in DOMAIN f

\* `op in OPS`, for a hashable op.
InOPS(op) == op.t = "str" /\ op.v \in OPS

evaluate_condition(f, c) ==
    IF ~HasLen(c) THEN "TypeError"
    ELSE IF Len(c.v) # 3 THEN "False"
    ELSE LET field == c.v[1]
             op == c.v[2]
             value == c.v[3]
         IN  IF ~Hashable(field) THEN "TypeError"
             ELSE IF ~InFacts(f, field) THEN "False"
             ELSE IF ~Hashable(op) THEN "TypeError"
             ELSE IF ~InOPS(op) THEN "False"
             ELSE Compare(op.v, f[field.v], value)

(***************************************************************************)
(* rule_matches                                                            *)
(***************************************************************************)
\* rule.get("conditions", [])
Conditions(rule) ==
    IF "conditions" \in DOMAIN rule THEN rule.conditions ELSE List(<<>>)

\* rule.get("priority", 0)
Priority(rule) ==
    IF "priority" \in DOMAIN rule THEN rule.priority ELSE Num(0)

RECURSIVE AllTrue(_, _)
\* all(evaluate_condition(facts, c) for c in conditions): stops at the first
\* condition that is not true; an error in a condition it reaches leaves it.
AllTrue(f, cs) ==
    IF cs = <<>> THEN "True"
    ELSE LET r == evaluate_condition(f, Head(cs))
         IN  IF r = "True" THEN AllTrue(f, Tail(cs)) ELSE r

RECURSIVE AnyTrue(_, _)
\* any(...) in the place of all(...).
AnyTrue(f, cs) ==
    IF cs = <<>> THEN "False"
    ELSE LET r == evaluate_condition(f, Head(cs))
         IN  IF r = "False" THEN AnyTrue(f, Tail(cs)) ELSE r

rule_matches_any(f, rule) ==
    IF ~Iterable(Conditions(rule)) THEN "TypeError"
    ELSE AnyTrue(f, Conditions(rule).v)

rule_matches(f, rule) ==
    IF ~Iterable(Conditions(rule)) THEN "TypeError"
    ELSE AllTrue(f, Conditions(rule).v)

(***************************************************************************)
(* run_rules                                                               *)
(***************************************************************************)
RECURSIVE Fired(_, _)
\* fired = [r for r in rules if rule_matches(facts, r)]: a new list, in the
\* order of rules; err when rule_matches raises for some rule.
Fired(f, rs) ==
    IF rs = <<>> THEN [err |-> FALSE, list |-> <<>>]
    ELSE LET m == rule_matches(f, Head(rs))
         IN  IF m = "TypeError" THEN [err |-> TRUE, list |-> <<>>]
             ELSE LET rest == Fired(f, Tail(rs))
                  IN  IF rest.err THEN rest
                      ELSE [err |-> FALSE,
                            list |-> IF m = "True" THEN <<Head(rs)>> \o rest.list
                                     ELSE rest.list]

Reverse(s) == [i \in 1..Len(s) |-> s[Len(s) + 1 - i]]

\* One step of the insertion sort: r goes after every element whose key is
\* not greater than its own (s is ascending, so these are a prefix of s).
Insert(s, r) ==
    LET n == Cardinality({i \in 1..Len(s) : ~PyLess(Priority(r), Priority(s[i]))})
    IN  SubSeq(s, 1, n) \o <<r>> \o SubSeq(s, n + 1, Len(s))

RECURSIVE SortAscending(_)
\* list.sort on the keys r.get("priority", 0): stable, ascending.
SortAscending(s) ==
    IF s = <<>> THEN <<>>
    ELSE Insert(SortAscending(SubSeq(s, 1, Len(s) - 1)), s[Len(s)])

\* The sort compares keys with <; it raises TypeError when two keys of a list
\* of two or more are not orderable (a sort that ends has compared, directly
\* or through others, every element with every other).
SortRaises(s) ==
    \E i, j \in 1..Len(s) : i # j /\ ~Orderable(Priority(s[i]), Priority(s[j]))

\* sorted(fired, key=...) without reverse=True.
SortedNotReversed(s) == SortAscending(s)

\* sorted(fired, key=...)[::-1]: descending, equal keys in reversed order.
SortedThenReversed(s) == Reverse(SortAscending(s))

\* sorted(fired, key=lambda r: r.get("priority", 0), reverse=True): the list
\* is reversed, sorted ascending (stable) and reversed again.
Sorted(s) == Reverse(SortAscending(Reverse(s)))

RejectDecision ==
    [decision |-> "REJECT", reason |-> "No rule matched - manual review required"]

\* The decision of line 107 (its dash is written "-" here).
DefaultDecision ==
    [decision |-> "REVIEW", reason |-> "No rule matched - manual review required"]

NoDecision == [decision |-> "", reason |-> ""]

NotCalled == [status |-> "not called", decision |-> NoDecision, matched |-> <<>>]

Raised == [status |-> "raised", decision |-> NoDecision, matched |-> <<>>]

Returned(d, m) == [status |-> "returned", decision |-> d, matched |-> m]

\* fired_sorted[-1]["action"] in the place of fired_sorted[0]["action"].
BestActionLast(fs) == fs[Len(fs)].action

\* best_action = fired_sorted[0]["action"]
BestAction(fs) == fs[1].action

run_rules(f, rs) ==
    LET fr == Fired(f, rs)
    IN  IF fr.err THEN Raised
        ELSE IF fr.list = <<>> THEN Returned(DefaultDecision, <<>>)
        ELSE IF SortRaises(fr.list) THEN Raised
        ELSE LET fired_sorted == Sorted(fr.list)
             IN  Returned(BestAction(fired_sorted), fired_sorted)

\* rules.sort(...) in the place of sorted(...): the caller's list is reordered.
RulesSortedInPlace(rs) == IF SortRaises(rs) THEN rs ELSE Sorted(rs)

\* The caller's rule list after a call: run_rules builds new lists (the list
\* comprehension, sorted) and assigns to no element of rules.
RulesAfterCall(rs) == rs

(***************************************************************************)
(* SCHOLARSHIP_RULES: the default rule set (cgpa in hundredths)            *)
(***************************************************************************)
Cond(field, op, value) == List(<<Str(field), Str(op), value>>)

SCHOLARSHIP_RULES ==
    << [name |-> "Top merit candidate",
        priority |-> Num(100),
        conditions |-> List(<<Cond("cgpa", ">=", Num(370)),
                              Cond("co_curricular_score", ">=", Num(80)),
                              Cond("family_income", "<=", Num(8000)),
                              Cond("disciplinary_actions", "==", Num(0))>>),
        action |-> [decision |-> "AWARD_FULL",
                    reason |-> "Excellent academic & co-curricular performance, with acceptable need"]],
       [name |-> "Good candidate - partial scholarship",
        priority |-> Num(80),
        conditions |-> List(<<Cond("cgpa", ">=", Num(330)),
                              Cond("co_curricular_score", ">=", Num(60)),
                              Cond("family_income", "<=", Num(12000)),
                              Cond("disciplinary_actions", "<=", Num(1))>>),
        action |-> [decision |-> "AWARD_PARTIAL",
                    reason |-> "Good academic & involvement record with moderate need"]],
       [name |-> "Need-based review",
        priority |-> Num(70),
        conditions |-> List(<<Cond("cgpa", ">=", Num(250)),
                              Cond("family_income", "<=", Num(4000))>>),
        action |-> [decision |-> "REVIEW",
                    reason |-> "High need but borderline academic score"]],
       [name |-> "Low CGPA - not eligible",
        priority |-> Num(95),
        conditions |-> List(<<Cond("cgpa", "<", Num(250))>>),
        action |-> [decision |-> "REJECT",
                    reason |-> "CGPA below minimum scholarship requirement"]],
       [name |-> "Serious disciplinary record",
        priority |-> Num(90),
        conditions |-> List(<<Cond("disciplinary_actions", ">=", Num(2))>>),
        action |-> [decision |-> "REJECT",
                    reason |-> "Too many disciplinary records"]] >>

(***************************************************************************)
(* Inputs                                                                  *)
(***************************************************************************)
MaxRules == 3

MaxCalls == 2

MaxCondLen == 4

\* The facts the input form builds: four numbers.  The values are those on
\* both sides of every threshold of the default rules, the ends of the
\* sliders, and the values of the scenarios.
CgpaValues == {0, 180, 245, 250, 280, 325, 330, 365, 370, 380, 400}

ScoreValues == {0, 50, 59, 60, 79, 80, 85, 100}

IncomeValues == {0, 3500, 4000, 4001, 5000, 8000, 8001, 12000, 12001, 15000, 20000}

DisciplinaryValues == {0, 1, 2, 3}

FormFacts ==
    {[cgpa |-> Num(c), co_curricular_score |-> Num(s),
      family_income |-> Num(i), disciplinary_actions |-> Num(d)] :
        c \in CgpaValues, s \in ScoreValues, i \in IncomeValues,
        d \in DisciplinaryValues}

\* Facts records for custom rule sets: the field above and below the
\* threshold of CondPass, and a record without the field.
CustomFacts ==
    {[cgpa |-> Num(300)], [cgpa |-> Num(200)], [family_income |-> Num(300)]}

CondPass == Cond("cgpa", ">=", Num(250))

CondNoField == Cond("age", "==", Num(1))

Absent == [t |-> "absent", v |-> 0]

ActionOf(n) ==
    IF n = "A" THEN [decision |-> "AWARD_FULL", reason |-> "rule A"]
    ELSE [decision |-> "REJECT", reason |-> "rule B"]

\* A rule record; an Absent priority or conditions leaves the key out.
MkRule(n, p, c) ==
    [name |-> n, action |-> ActionOf(n)]
        @@ (IF p = Absent THEN <<>> ELSE ("priority" :> p))
        @@ (IF c = Absent THEN <<>> ELSE ("conditions" :> c))

WellFormedRules ==
    {MkRule(n, p, c) : n \in {"A", "B"}, p \in {Absent, Num(0), Num(1)},
                       c \in {List(<<>>), List(<<CondPass>>)}}
        \cup {MkRule("A", Num(1), Absent)}

\* Rule records with a priority or conditions value of an unexpected type, or
\* with a malformed condition.
MalformedRules ==
    {MkRule("A", Str("high"), Absent),
     MkRule("B", Null, Absent),
     MkRule("A", Num(1), Null),
     MkRule("B", Num(1), List(<<Num(5)>>)),
     MkRule("A", Num(1), List(<<CondNoField, Num(5)>>))}

RulePalette == WellFormedRules \cup MalformedRules

RuleSets == UNION {[1..n -> RulePalette] : n \in 0..MaxRules}

CondFields ==
    {Str("cgpa"), Str("age"), Num(1), Null, List(<<Str("cgpa")>>)}

CondOps ==
    {Str(o) : o \in OPS} \cup {Str("=>"), Null, List(<<Str(">=")>>)}

CondValues == {Num(250), Num(300), Num(370), Str("3.5"), Str("3.8"), Null}

\* Conditions: triples of every shape, lists of every length up to
\* MaxCondLen, and values that are no list at all.
CondSet ==
    {List(<<f, o, v>>) : f \in CondFields, o \in CondOps, v \in CondValues}
        \cup {List(s) : s \in UNION {[1..n -> {Str("cgpa"), Str(">="), Num(250)}] :
                                        n \in 0..MaxCondLen}}
        \cup {Num(5), Null}

CondFacts == {[cgpa |-> Num(300)], [cgpa |-> Str("3.8")], [cgpa |-> Null]}

(***************************************************************************)
(* The state machine                                                       *)
(***************************************************************************)
\* Lines 151-159: the active rules are the parsed custom rules or the
\* module's SCHOLARSHIP_RULES list itself; lines 140-145 build the facts.
InitDefault ==
    /\ facts \in FormFacts
    /\ rules = SCHOLARSHIP_RULES
    /\ rules_source = "default"

InitCustom ==
    /\ facts \in CustomFacts
    /\ rules \in RuleSets
    /\ rules_source = "custom"

Init ==
    /\ InitDefault \/ InitCustom
    /\ out = NotCalled
    /\ calls = 0
    /\ cond = Null
    /\ cond_out = "not called"

\* decision, matched_rules = run_rules(facts, rules)
RunRules ==
    /\ calls < MaxCalls
    /\ out' = run_rules(facts, rules)
    /\ rules' = RulesAfterCall(rules)
    /\ calls' = calls + 1
    /\ UNCHANGED <<facts, rules_source, cond, cond_out>>

Next == RunRules

Spec == Init /\ [][Next]_vars

InitCond ==
    /\ facts \in CondFacts
    /\ cond \in CondSet
    /\ cond_out = "not called"
    /\ rules = <<>>
    /\ rules_source = "custom"
    /\ out = NotCalled
    /\ calls = 0

\* evaluate_condition(facts, cond)
EvaluateCondition ==
    /\ cond_out' = evaluate_condition(facts, cond)
    /\ UNCHANGED <<facts, cond, rules, rules_source, out, calls>>

NextCond == EvaluateCondition

SpecCond == InitCond /\ [][NextCond]_vars

(***************************************************************************)
(* Properties                                                              *)
(***************************************************************************)
Called == out.status # "not called"

Returns == out.status = "returned"

Range(s) == {s[i] : i \in 1..Len(s)}

Count(s, r) == Cardinality({i \in 1..Len(s) : s[i] = r})

\* Every condition of the rule evaluates to true (none when it has none).
ConditionsHold(f, r) ==
    /\ Iterable(Conditions(r))
    /\ \A i \in 1..Len(Conditions(r).v) :
          evaluate_condition(f, Conditions(r).v[i]) = "True"

\* The rules of the rule set whose conditions all hold, in rule-set order.
MatchingRules ==
    LET Test(r) == ConditionsHold(facts, r) IN SelectSeq(rules, Test)

\* The elements of s whose priority equals that of r, in the order of s.
WithPriorityOf(s, r) ==
    LET Test(x) == PyEq(Priority(x), Priority(r)) IN SelectSeq(s, Test)

\* C1: when run_rules returns and at least one rule matches, the decision is
\* the action of the first element of the matched list, and no other matched
\* rule has a priority (0 when missing) greater than that element's.
C1_WinnerIsFirstAndHighest ==
    (Returns /\ \E i \in 1..Len(rules) : ConditionsHold(facts, rules[i])) =>
        /\ out.matched # <<>>
        /\ out.decision = out.matched[1].action
        /\ \A j \in 2..Len(out.matched) :
              ~PyLess(Priority(out.matched[1]), Priority(out.matched[j]))

\* A call where the winner is not the first rule of the rule set and a
\* runner-up of lower priority and another action also fired.
C1_Witness ==
    /\ Returns
    /\ Len(out.matched) >= 2
    /\ out.matched[1] # rules[1]
    /\ ConditionsHold(facts, rules[1])
    /\ PyLess(Priority(out.matched[2]), Priority(out.matched[1]))
    /\ out.matched[2].action # out.decision

\* C2: the matched list run_rules returns is sorted by priority descending
\* (0 when missing), and matched rules of equal priority keep the relative
\* order they have in the rule set.
C2_SortedDescendingStable ==
    Returns =>
        /\ \A i, j \in 1..Len(out.matched) :
              i < j => ~PyLess(Priority(out.matched[i]), Priority(out.matched[j]))
        /\ \A r \in Range(out.matched) :
              WithPriorityOf(out.matched, r) = WithPriorityOf(MatchingRules, r)

\* Three rules fired: two different ones of equal priority, and one of a
\* higher priority that stands after them in the rule set.
C2_Witness ==
    /\ Returns
    /\ Len(out.matched) = 3
    /\ Len(rules) = 3
    /\ PyEq(Priority(rules[1]), Priority(rules[2]))
    /\ rules[1] # rules[2]
    /\ PyLess(Priority(rules[1]), Priority(rules[3]))
    /\ out.matched = <<rules[3], rules[1], rules[2]>>

\* C3: when rule_matches is false for every rule, run_rules returns the
\* decision REVIEW / "No rule matched - manual review required" and an empty
\* matched list; and a returned matched list is empty only when no rule's
\* conditions all hold.
C3_NoMatchFallback ==
    /\ (Called /\ \A i \in 1..Len(rules) : rule_matches(facts, rules[i]) = "False") =>
          out = [status |-> "returned",
                 decision |-> [decision |-> "REVIEW",
                               reason |-> "No rule matched - manual review required"],
                 matched |-> <<>>]
    /\ (Returns /\ out.matched = <<>>) =>
          \A i \in 1..Len(rules) : ~ConditionsHold(facts, rules[i])

\* A call on a rule set of several rules, none of which matches.
C3_Witness ==
    /\ Called
    /\ Len(rules) >= 2
    /\ \A i \in 1..Len(rules) : rule_matches(facts, rules[i]) = "False"
    /\ out.matched = <<>>
    /\ out.decision.decision = "REVIEW"

\* C4: the matched list run_rules returns holds each rule of the rule set as
\* many times as the rule set does when all the rule's conditions evaluate to
\* true, and not at all otherwise; a rule with an empty condition list or
\* with no conditions field has all its conditions true.
C4_MatchedAreExactlyTheMatching ==
    Returns =>
        /\ Range(out.matched) \subseteq Range(rules)
        /\ \A r \in Range(rules) :
              Count(out.matched, r) =
                  IF ConditionsHold(facts, r) THEN Count(rules, r) ELSE 0
        /\ \A r \in Range(rules) :
              ("conditions" \notin DOMAIN r \/ r.conditions = List(<<>>)) =>
                  Count(out.matched, r) = Count(rules, r)

\* A rule set that holds twice a rule without a conditions field, both fired,
\* and a rule whose condition is false, left out.
C4_Witness ==
    /\ Returns
    /\ \E r \in Range(rules) :
          /\ "conditions" \notin DOMAIN r
          /\ Count(rules, r) = 2
          /\ Count(out.matched, r) = 2
    /\ \E r \in Range(rules) :
          /\ Conditions(r) = List(<<CondPass>>)
          /\ ~ConditionsHold(facts, r)
          /\ Count(out.matched, r) = 0

\* The field is a key of the facts record.
InFactsKey(f, x) == x.t = "str" /\ x.v \in DOMAIN f

\* The operator is one of the six strings.
IsOperator(x) == x.t = "str" /\ x.v \in {"==", "!=", ">", ">=", "<", "<="}

\* The condition is not a triple, or its field is no key of facts, or its
\* operator is none of the six.
Malformed(f, c) ==
    IF c.t = "list" /\ Len(c.v) = 3
    THEN ~InFactsKey(f, c.v[1]) \/ ~IsOperator(c.v[2])
    ELSE TRUE

\* C5: for a malformed condition (not exactly three elements, a field absent
\* from facts, or an operator that is none of ==, !=, >, >=, <, <=)
\* evaluate_condition returns false and raises nothing.
C5_MalformedConditionIsFalse ==
    (cond_out # "not called" /\ Malformed(facts, cond)) => cond_out = "False"

\* The fact value and the literal of a well-formed condition have different
\* types.
IncompatibleTypes(f, c) ==
    /\ ~Malformed(f, c)
    /\ f[c.v[1].v].t # c.v[3].t

\* C6 as stated: for each of the six operators, evaluate_condition returns
\* false when the fact value and the literal are of incompatible types.
C6_IncompatibleTypesAreFalse ==
    (cond_out # "not called" /\ IncompatibleTypes(facts, cond)) =>
        cond_out = "False"

\* C6 amended: when the fact value and the literal are of incompatible types,
\* evaluate_condition returns false for ==, >, >=, < and <=, and true for !=.
C6_IncompatibleTypesFalseButNe ==
    (cond_out # "not called" /\ IncompatibleTypes(facts, cond)) =>
        cond_out = (IF cond.v[2].v = "!=" THEN "True" ELSE "False")

\* A number compared by >= with a string literal: the comparison raises and
\* the condition is false.
C6_Witness ==
    /\ cond_out = "False"
    /\ IncompatibleTypes(facts, cond)
    /\ cond.v[2].v = ">="
    /\ facts.cgpa.t = "num"
    /\ cond.v[3].t = "str"

\* No condition of any rule raises when evaluated.
NoConditionRaises ==
    \A i \in 1..Len(rules) :
        Iterable(Conditions(rules[i])) =>
            \A k \in 1..Len(Conditions(rules[i]).v) :
                evaluate_condition(facts, Conditions(rules[i]).v[k]) # "TypeError"

\* C7: run_rules returns a (decision, matched list) pair for every rule set
\* of records that carry an action, whatever their priority and conditions
\* fields are.
C7_NeverRaisesOnMalformedRule ==
    (Called /\ NoConditionRaises) => Returns

ScenarioA ==
    [cgpa |-> Num(380), co_curricular_score |-> Num(85),
     family_income |-> Num(5000), disciplinary_actions |-> Num(0)]

\* C8 as stated: on the facts of scenario A and the default rules, the
\* matched list is the one rule "Top merit candidate" and the decision is
\* AWARD_FULL.
C8_ScenarioA ==
    (Called /\ rules_source = "default" /\ facts = ScenarioA) =>
        /\ Returns
        /\ Len(out.matched) = 1
        /\ out.matched[1].name = "Top merit candidate"
        /\ out.decision.decision = "AWARD_FULL"

\* C8 amended: on the facts of scenario A and the default rules, the matched
\* list is "Top merit candidate" followed by "Good candidate - partial
\* scholarship", and the decision is AWARD_FULL.
C8_ScenarioATwoMatch ==
    (Called /\ rules_source = "default" /\ facts = ScenarioA) =>
        /\ Returns
        /\ Len(out.matched) = 2
        /\ out.matched[1].name = "Top merit candidate"
        /\ out.matched[2].name = "Good candidate - partial scholarship"
        /\ out.decision.decision = "AWARD_FULL"

\* run_rules was called on scenario A with the default rules.
C8_Witness ==
    /\ Called
    /\ rules_source = "default"
    /\ facts = ScenarioA
    /\ rules = SCHOLARSHIP_RULES

C10_LowCgpaOrDisciplineRejects ==
    (Called /\ rules_source = "default"
        /\ (facts.cgpa.v < 250 \/ facts.disciplinary_actions.v >= 2)) =>
        /\ Returns
        /\ out.decision.decision = "REJECT"

\* A student with two disciplinary actions for whom the lower-priority
\* "Need-based review" rule fired too.
C10_Witness ==
    /\ Called
    /\ rules_source = "default"
    /\ facts.disciplinary_actions.v >= 2
    /\ facts.cgpa.v >= 250
    /\ \E i \in 1..Len(out.matched) : out.matched[i].name = "Need-based review"
    /\ out.decision.decision = "REJECT"

=============================================================================
